---- MODULE Spec2Model ----
(***************************************************************************)
(* ByteBite food ordering (src/app.py): the session state of the Streamlit *)
(* application (menu_items, orders, order_index, cart, authenticated), the *)
(* st.cache_data entry of RecommendationEngine.get_popular_items, and one  *)
(* action per button handler.  A Streamlit click re-runs the script from   *)
(* the top, so an action of the Order page contains the call of            *)
(* show_quick_recommendations that the script makes before it reaches the  *)
(* clicked button.                                                         *)
(*                                                                         *)
(* Prices are in hundredths of a rupee (70.23 is 7023).  A MenuItem keeps  *)
(* food_id, name and price; rating, category, tags and image_data are read *)
(* only by the page rendering.  An order keeps no date.                    *)
(***************************************************************************)
EXTENDS Integers, Sequences, FiniteSets, TLC

VARIABLES authenticated, page, menu_items, orders, order_index, cart,
          cache, popular_call, attempt, admin_view, issued_order_ids,
          used_food_ids, orphaned

vars == <<authenticated, page, menu_items, orders, order_index, cart,
          cache, popular_call, attempt, admin_view, issued_order_ids,
          used_food_ids, orphaned>>

(* ------------------------------ bounds --------------------------------- *)
SeedSize == 1
MaxFoodId == 2
MaxCartUnits == 2
MaxOrders == 2
ClockStep == 30
PopMenuSize == 4
PopMaxOrders == 2
PopMaxLines == 2
PopMaxQty == 2
ListMaxOrders == 12

(* ------------------------- program constants --------------------------- *)
TTL == 60
PopularLimit == 3
ListCap == 10

DishNames == {"Momo"}
DishPrices == {4000}
CustomerNames == {"Alice"}
TeacherFlags == {FALSE}

(* ------------------------------ the menu ------------------------------- *)
MenuItem(food_id, name, price) ==
    [food_id |-> food_id, name |-> name, price |-> price]

menu_data ==
    << MenuItem(1, "Burger", 7023), MenuItem(2, "Coffee", 7020),
       MenuItem(3, "Pizza", 23726), MenuItem(4, "Pasta", 15000),
       MenuItem(5, "Sandwich", 8050), MenuItem(6, "Fries", 6000),
       MenuItem(7, "Salad", 9000), MenuItem(8, "Ice Cream", 5000) >>

\* The model seeds the catalog with the first SeedSize dishes of menu_data.
load_default_menu ==
    SubSeq(menu_data, 1, IF SeedSize < Len(menu_data) THEN SeedSize ELSE Len(menu_data))

Min(a, b) == IF a < b THEN a ELSE b

FoodIds(menu) == {menu[i].food_id : i \in 1..Len(menu)}

\* max([i.food_id for i in menu_items], default=0)
MaxFoodIdOf(menu) ==
    IF menu = <<>> THEN 0
    ELSE CHOOSE m \in FoodIds(menu) : \A n \in FoodIds(menu) : n <= m

NewFoodId(menu) == MaxFoodIdOf(menu) + 1

\* next((m for m in menu_items if m.food_id == food_id), None), as a sequence
\* of zero or one item
FindItem(menu, food_id) ==
    LET hits == SelectSeq(menu, LAMBDA m : m.food_id = food_id)
    IN  IF hits = <<>> THEN <<>> ELSE <<Head(hits)>>

\* list.remove(x): drops the first element equal to x
RemoveFirst(seq, x) ==
    IF \E i \in 1..Len(seq) : seq[i] = x
    THEN LET k == CHOOSE i \in 1..Len(seq) :
                      seq[i] = x /\ \A j \in 1..(i - 1) : seq[j] # x
         IN  SubSeq(seq, 1, k - 1) \o SubSeq(seq, k + 1, Len(seq))
    ELSE seq

(* ------------------------------ the cart ------------------------------- *)
\* The cart is a dict; its insertion order is the order of the line items of
\* the order placed from it.
CartIds(c) == {c[i].food_id : i \in 1..Len(c)}

\* cart.get(food_id, 0)
CartGet(c, food_id) ==
    IF food_id \in CartIds(c)
    THEN c[CHOOSE i \in 1..Len(c) : c[i].food_id = food_id].qty
    ELSE 0

\* cart[food_id] = qty
CartSet(c, food_id, qty) ==
    IF food_id \in CartIds(c)
    THEN [i \in 1..Len(c) |->
            IF c[i].food_id = food_id THEN [food_id |-> food_id, qty |-> qty]
            ELSE c[i]]
    ELSE Append(c, [food_id |-> food_id, qty |-> qty])

RECURSIVE CartUnits(_)
\* The units in the cart, which the model caps at MaxCartUnits.
CartUnits(c) == IF c = <<>> THEN 0 ELSE Head(c).qty + CartUnits(Tail(c))

\* cart.pop(food_id, None)
CartPop(c, food_id) == SelectSeq(c, LAMBDA e : e.food_id # food_id)

(* ---------------------------- place_order ------------------------------ *)
\* The loop of place_order (and of display_cart_summary): the cart entries
\* that resolve against the catalog, in cart order, each with the resolved
\* MenuItem.
ItemsOrdered(c, menu) ==
    LET resolved == SelectSeq(c, LAMBDA e : FindItem(menu, e.food_id) # <<>>)
    IN  [i \in 1..Len(resolved) |->
            [item |-> Head(FindItem(menu, resolved[i].food_id)),
             qty  |-> resolved[i].qty]]

RECURSIVE LinesTotal(_)
\* total += item.price * qty
LinesTotal(lines) ==
    IF lines = <<>> THEN 0
    ELSE Head(lines).item.price * Head(lines).qty + LinesTotal(Tail(lines))

OrderHistory(order_id, customer_name, items, total_amount, is_teacher) ==
    [order_id |-> order_id, customer_name |-> customer_name, items |-> items,
     total_amount |-> total_amount, is_teacher |-> is_teacher]

\* An order whose total ignores the quantities.
NewOrderUnitTotal(idx, customer_name, is_teacher, c, menu) ==
    OrderHistory(idx, customer_name, ItemsOrdered(c, menu),
                 LinesTotal([i \in 1..Len(ItemsOrdered(c, menu)) |->
                                [ItemsOrdered(c, menu)[i] EXCEPT !.qty = 1]]),
                 is_teacher)

\* The order that place_order builds from the session state.
NewOrder(idx, customer_name, is_teacher, c, menu) ==
    OrderHistory(idx, customer_name, ItemsOrdered(c, menu),
                 LinesTotal(ItemsOrdered(c, menu)), is_teacher)

(* ------------------------- get_popular_items --------------------------- *)
RECURSIVE AllLines(_)
\* for order in _orders: for item, qty in order.items
AllLines(ords) ==
    IF ords = <<>> THEN <<>> ELSE Head(ords).items \o AllLines(Tail(ords))

RECURSIVE ItemCounts(_, _)
\* item_counts[item.food_id] = item_counts.get(item.food_id, 0) + qty, the
\* dict kept as a sequence in insertion order
ItemCounts(lines, counts) ==
    IF lines = <<>> THEN counts
    ELSE LET fid == Head(lines).item.food_id
             old == IF \E i \in 1..Len(counts) : counts[i].food_id = fid
                    THEN (CHOOSE i \in 1..Len(counts) : counts[i].food_id = fid)
                    ELSE 0
             new == IF old = 0
                    THEN Append(counts, [food_id |-> fid, count |-> Head(lines).qty])
                    ELSE [counts EXCEPT ![old].count = @ + Head(lines).qty]
         IN  ItemCounts(Tail(lines), new)

\* An ascending sort: reverse=True forgotten.
InsertAsc(sorted, e) ==
    LET ahead == {i \in 1..Len(sorted) : sorted[i].count <= e.count}
        k == Cardinality(ahead)
    IN  SubSeq(sorted, 1, k) \o <<e>> \o SubSeq(sorted, k + 1, Len(sorted))

\* Insertion of e behind every element whose count is not smaller: the
\* stable descending order of sorted(..., key=count, reverse=True).
InsertDesc(sorted, e) ==
    LET ahead == {i \in 1..Len(sorted) : sorted[i].count >= e.count}
        k == Cardinality(ahead)
    IN  SubSeq(sorted, 1, k) \o <<e>> \o SubSeq(sorted, k + 1, Len(sorted))

RECURSIVE SortedDesc(_, _)
SortedDesc(counts, acc) ==
    IF counts = <<>> THEN acc
    ELSE SortedDesc(Tail(counts), InsertDesc(acc, Head(counts)))

\* The body of RecommendationEngine.get_popular_items.
get_popular_items(menu, ords, limit) ==
    LET item_counts == ItemCounts(AllLines(ords), <<>>)
        ranked == SortedDesc(item_counts, <<>>)
        popular_ids == SubSeq(ranked, 1, Min(limit, Len(ranked)))
    IN  IF item_counts = <<>> THEN SubSeq(menu, 1, Min(limit, Len(menu)))
        ELSE SelectSeq(menu, LAMBDA m :
                 \E i \in 1..Len(popular_ids) : popular_ids[i].food_id = m.food_id)

(* --------------------------- st.cache_data ----------------------------- *)
\* _menu_items and _orders carry the underscore that takes them out of the
\* cache key, and every call of the program passes limit=3: the cache holds at
\* most one entry.  An entry is the cached result, its age, and the arguments
\* of the call that computed it.
CacheEntry(menu, ords, limit) ==
    [result |-> get_popular_items(menu, ords, limit), age |-> 0,
     menu |-> menu, orders |-> ords]

\* The cache after a call get_popular_items(menu, ords, limit): a live entry is
\* served as it is, otherwise the body runs and its result is stored.
CacheAfterCall(c, menu, ords, limit) ==
    IF c # <<>> THEN c ELSE <<CacheEntry(menu, ords, limit)>>

\* show_quick_recommendations returns before the call when there is no order.
CallsPopular(pg, ords) == pg = "Order" /\ ords # <<>>

\* What one run of the script's show_quick_recommendations does: the record of
\* its call of get_popular_items (none when it returns early) ...
CallRecord(c, pg, menu, ords) ==
    IF CallsPopular(pg, ords)
    THEN << [hit |-> (c # <<>>), limit |-> PopularLimit, menu |-> menu, orders |-> ords,
             entry |-> Head(CacheAfterCall(c, menu, ords, PopularLimit))] >>
    ELSE <<>>

\* ... and the cache it leaves.
Rendered(c, pg, menu, ords) ==
    IF CallsPopular(pg, ords) THEN CacheAfterCall(c, menu, ords, PopularLimit)
    ELSE c

\* A placement that leaves the cache alone.
CacheNotCleared(c) == c

\* RecommendationEngine.get_popular_items.clear()
CacheAfterClear(c) == <<>>

\* ttl=60: the entry is dropped once its age reaches the time-to-live.
Aged(c, dt) ==
    IF c = <<>> THEN c
    ELSE IF Head(c).age + dt >= TTL THEN <<>>
    ELSE <<[Head(c) EXCEPT !.age = @ + dt]>>

(* ------------------------- handler helpers ----------------------------- *)
\* A "-" that always decrements.
CartAfterMinusNoPop(c, food_id, current_qty) ==
    CartSet(c, food_id, current_qty - 1)

\* The "-" button: if current_qty > 1 the entry is decremented, else popped.
CartAfterMinus(c, food_id, current_qty) ==
    IF current_qty > 1 THEN CartSet(c, food_id, current_qty - 1)
    ELSE CartPop(c, food_id)

\* The "+" button and the recommendation "Add" button.
CartAfterPlus(c, food_id, current_qty) == CartSet(c, food_id, current_qty + 1)

\* A placement that does not look at items_ordered.
AcceptedWithoutItems(customer_name, items_ordered) == customer_name # ""

\* if customer_name: place_order(...), and in it: if items_ordered:
Accepted(customer_name, items_ordered) ==
    customer_name # "" /\ items_ordered # <<>>

\* A counter derived from the length of the ledger.
OrderIndexFromLedger(idx, ords) == Len(ords) + 1

\* st.session_state.order_index += 1
OrderIndexAfterPlace(idx, ords) == idx + 1

\* if name and price > 0:
DishAccepted(name, price) == name # "" /\ price > 0

\* A listing of the first ListCap orders: orders[:10] for orders[-10:].
ListedOldest(ords) ==
    LET k == Min(ListCap, Len(ords))
    IN  [j \in 1..k |-> k + 1 - j]

\* reversed(st.session_state.orders[-10:]): the positions listed, newest first
ListedOrders(ords) ==
    LET n == Len(ords)
        k == Min(ListCap, n)
    IN  [j \in 1..k |-> n + 1 - j]

\* A placement that takes out of the cart only the entries it ordered.
CartKeepsUnresolved(c, menu) ==
    SelectSeq(c, LAMBDA e : FindItem(menu, e.food_id) = <<>>)

\* st.session_state.cart = {} in place_order
CartAfterPlace(c, menu) == <<>>

(* ---------------------------- admin panel ------------------------------ *)
RECURSIVE Revenue(_)
\* sum(o.total_amount for o in st.session_state.orders)
Revenue(ords) ==
    IF ords = <<>> THEN 0 ELSE Head(ords).total_amount + Revenue(Tail(ords))

\* The quotient num / den, kept as the fraction; a den of 0 is the division
\* that raises ZeroDivisionError.
Ratio(num, den) == [num |-> num, den |-> den]

\* An average without the guard on the empty ledger.
AverageUnguarded(revenue, ords) == Ratio(revenue, Len(ords))

\* avg = revenue / len(orders) if orders else 0
Average(revenue, ords) ==
    IF ords # <<>> THEN Ratio(revenue, Len(ords)) ELSE Ratio(0, 1)

\* What show_admin_panel puts on the page: the metrics Total Orders, Revenue
\* and Avg Order, and the orders that show_order_management lists.
AdminView(ords) ==
    [count |-> Len(ords),
     revenue |-> Revenue(ords),
     avg |-> Average(Revenue(ords), ords),
     listed |-> [j \in 1..Len(ListedOrders(ords)) |-> ords[ListedOrders(ords)[j]]]]

\* The admin panel is on the page only when the Admin page is rendered.
ViewOf(pg, ords) == IF pg = "Admin" THEN <<AdminView(ords)>> ELSE <<>>

(* ------------------------------- state --------------------------------- *)
\* issued_order_ids, used_food_ids and orphaned are history variables: the
\* order_id of every order place_order created, in placement order, every
\* food_id a catalog item has ever held, and the
\* food_ids whose cart entry lost its dish to a catalog deletion and has not
\* been written by a cart button since.  popular_call and attempt describe the
\* last script run: its call of get_popular_items and its click on Place Order.
\* admin_view is the admin panel as the page shows it.
Init ==
    /\ authenticated = FALSE
    /\ page = "Order"
    /\ menu_items = load_default_menu
    /\ orders = <<>>
    /\ order_index = 1
    /\ cart = <<>>
    /\ cache = <<>>
    /\ popular_call = <<>>
    /\ attempt = <<>>
    /\ admin_view = <<>>
    /\ issued_order_ids = <<>>
    /\ used_food_ids = FoodIds(load_default_menu)
    /\ orphaned = {}

\* The run renders the Order page before it reaches a button of that page.
OrderPageRun ==
    /\ authenticated
    /\ page = "Order"
    /\ popular_call' = CallRecord(cache, page, menu_items, orders)

AdminPageRun ==
    /\ authenticated
    /\ page = "Admin"
    /\ popular_call' = <<>>
    /\ attempt' = <<>>
    /\ UNCHANGED <<authenticated, page, cache>>

(* ------------------------------ actions -------------------------------- *)
Login ==
    /\ ~authenticated
    /\ authenticated' = TRUE
    /\ popular_call' = CallRecord(cache, page, menu_items, orders)
    /\ cache' = Rendered(cache, page, menu_items, orders)
    /\ attempt' = <<>>
    /\ admin_view' = ViewOf(page, orders)
    /\ UNCHANGED <<page, menu_items, orders, order_index, cart, issued_order_ids,
                   used_food_ids, orphaned>>

Logout ==
    /\ authenticated
    /\ authenticated' = FALSE
    /\ cart' = <<>>
    /\ page' = "Order"
    /\ orphaned' = {}
    /\ popular_call' = <<>>
    /\ attempt' = <<>>
    /\ admin_view' = <<>>
    /\ UNCHANGED <<menu_items, orders, order_index, cache, issued_order_ids, used_food_ids>>

SelectPage(p) ==
    /\ authenticated
    /\ p # page
    /\ page' = p
    /\ popular_call' = CallRecord(cache, p, menu_items, orders)
    /\ cache' = Rendered(cache, p, menu_items, orders)
    /\ attempt' = <<>>
    /\ admin_view' = ViewOf(p, orders)
    /\ UNCHANGED <<authenticated, menu_items, orders, order_index, cart, issued_order_ids,
                   used_food_ids, orphaned>>

\* The clock advances between two runs of the script.
Tick ==
    /\ cache # <<>>
    /\ cache' = Aged(cache, ClockStep)
    /\ popular_call' = <<>>
    /\ attempt' = <<>>
    /\ UNCHANGED admin_view
    /\ UNCHANGED <<authenticated, page, menu_items, orders, order_index, cart,
                   issued_order_ids, used_food_ids, orphaned>>

\* A run of the Order page without a button of the model (the name is typed,
\* the category is chosen): show_quick_recommendations alone.
ShowQuickRecommendations ==
    /\ OrderPageRun
    /\ cache' = Rendered(cache, page, menu_items, orders)
    /\ attempt' = <<>>
    /\ admin_view' = <<>>
    /\ UNCHANGED <<authenticated, page, menu_items, orders, order_index, cart,
                   issued_order_ids, used_food_ids, orphaned>>

RecommendationAdd(k) ==
    /\ OrderPageRun
    /\ CallsPopular(page, orders)
    /\ LET popular == Head(CacheAfterCall(cache, menu_items, orders, PopularLimit)).result
       IN  /\ k \in 1..Len(popular)
           /\ CartUnits(cart) < MaxCartUnits
           /\ cart' = CartAfterPlus(cart, popular[k].food_id,
                                    CartGet(cart, popular[k].food_id))
           /\ orphaned' = orphaned \ {popular[k].food_id}
    /\ cache' = Rendered(cache, page, menu_items, orders)
    /\ attempt' = <<>>
    /\ admin_view' = <<>>
    /\ UNCHANGED <<authenticated, page, menu_items, orders, order_index, issued_order_ids,
                   used_food_ids>>

Plus(k) ==
    /\ OrderPageRun
    /\ k \in 1..Len(menu_items)
    /\ LET current_qty == CartGet(cart, menu_items[k].food_id)
       IN  /\ CartUnits(cart) < MaxCartUnits
           /\ cart' = CartAfterPlus(cart, menu_items[k].food_id, current_qty)
    /\ orphaned' = orphaned \ {menu_items[k].food_id}
    /\ cache' = Rendered(cache, page, menu_items, orders)
    /\ attempt' = <<>>
    /\ admin_view' = <<>>
    /\ UNCHANGED <<authenticated, page, menu_items, orders, order_index, issued_order_ids,
                   used_food_ids>>

Minus(k) ==
    /\ OrderPageRun
    /\ k \in 1..Len(menu_items)
    /\ LET current_qty == CartGet(cart, menu_items[k].food_id)
       IN  /\ current_qty # 0
           /\ cart' = CartAfterMinus(cart, menu_items[k].food_id, current_qty)
    /\ orphaned' = orphaned \ {menu_items[k].food_id}
    /\ cache' = Rendered(cache, page, menu_items, orders)
    /\ attempt' = <<>>
    /\ admin_view' = <<>>
    /\ UNCHANGED <<authenticated, page, menu_items, orders, order_index, issued_order_ids,
                   used_food_ids>>

ClearCart ==
    /\ OrderPageRun
    /\ cart # <<>>
    /\ cart' = <<>>
    /\ orphaned' = {}
    /\ cache' = Rendered(cache, page, menu_items, orders)
    /\ attempt' = <<>>
    /\ admin_view' = <<>>
    /\ UNCHANGED <<authenticated, page, menu_items, orders, order_index, issued_order_ids,
                   used_food_ids>>

\* The Place Order button: shown when the cart is non-empty; place_order runs
\* when the name is not blank, and clears the cache after it has appended.
PlaceOrderClick(customer_name, is_teacher) ==
    /\ OrderPageRun
    /\ cart # <<>>
    /\ order_index <= MaxOrders
    /\ LET items_ordered == ItemsOrdered(cart, menu_items)
           order == NewOrder(order_index, customer_name, is_teacher, cart, menu_items)
       IN  /\ attempt' = << [customer_name |-> customer_name,
                             items_ordered |-> items_ordered,
                             cart |-> cart] >>
           /\ IF Accepted(customer_name, items_ordered)
              THEN /\ orders' = Append(orders, order)
                   /\ order_index' = OrderIndexAfterPlace(order_index, orders')
                   /\ cart' = CartAfterPlace(cart, menu_items)
                   /\ orphaned' = {}
                   /\ issued_order_ids' = Append(issued_order_ids, order.order_id)
                   /\ cache' = CacheAfterClear(Rendered(cache, page, menu_items, orders))
              ELSE /\ cache' = Rendered(cache, page, menu_items, orders)
                   /\ UNCHANGED <<orders, order_index, cart, orphaned, issued_order_ids>>
    /\ admin_view' = <<>>
    /\ UNCHANGED <<authenticated, page, menu_items, used_food_ids>>

AddDish(name, price) ==
    /\ AdminPageRun
    /\ IF DishAccepted(name, price)
       THEN /\ NewFoodId(menu_items) <= MaxFoodId
            /\ menu_items' = Append(menu_items,
                                    MenuItem(NewFoodId(menu_items), name, price))
            /\ used_food_ids' = used_food_ids \cup {NewFoodId(menu_items)}
       ELSE UNCHANGED <<menu_items, used_food_ids>>
    /\ admin_view' = ViewOf(page, orders)
    /\ UNCHANGED <<orders, order_index, cart, issued_order_ids, orphaned>>

\* A deletion that also strikes the dish from the orders that hold it.
DeleteDishCascade(k) ==
    /\ AdminPageRun
    /\ k \in 1..Len(menu_items)
    /\ menu_items' = RemoveFirst(menu_items, menu_items[k])
    /\ orphaned' = orphaned \cup ({menu_items[k].food_id} \cap CartIds(cart))
    /\ orders' = [i \in 1..Len(orders) |->
                    [orders[i] EXCEPT !.items =
                        SelectSeq(@, LAMBDA l : l.item.food_id # menu_items[k].food_id)]]
    /\ admin_view' = ViewOf(page, orders')
    /\ UNCHANGED <<order_index, cart, issued_order_ids, used_food_ids>>

DeleteDish(k) ==
    /\ AdminPageRun
    /\ k \in 1..Len(menu_items)
    /\ menu_items' = RemoveFirst(menu_items, menu_items[k])
    /\ orphaned' = orphaned \cup ({menu_items[k].food_id} \cap CartIds(cart))
    /\ admin_view' = ViewOf(page, orders)
    /\ UNCHANGED <<orders, order_index, cart, issued_order_ids, used_food_ids>>

DeleteOrder(j) ==
    /\ AdminPageRun
    /\ j \in 1..Len(ListedOrders(orders))
    /\ orders' = RemoveFirst(orders, orders[ListedOrders(orders)[j]])
    /\ admin_view' = ViewOf(page, orders')
    /\ UNCHANGED <<menu_items, order_index, cart, issued_order_ids, used_food_ids, orphaned>>

Next ==
    \/ Login
    \/ Logout
    \/ \E p \in {"Order", "Admin"} : SelectPage(p)
    \/ Tick
    \/ ShowQuickRecommendations
    \/ \E k \in 1..PopularLimit : RecommendationAdd(k)
    \/ \E k \in 1..MaxFoodId : Plus(k)
    \/ \E k \in 1..MaxFoodId : Minus(k)
    \/ ClearCart
    \/ \E n \in CustomerNames \cup {""}, t \in TeacherFlags : PlaceOrderClick(n, t)
    \/ \E n \in DishNames \cup {""}, pr \in DishPrices \cup {0} : AddDish(n, pr)
    \/ \E k \in 1..MaxFoodId : DeleteDish(k)
    \/ \E j \in 1..ListCap : DeleteOrder(j)

Spec == Init /\ [][Next]_vars

(* ------------- get_popular_items on its own: SpecPopular --------------- *)
\* The catalogs and ledgers the function is applied to: any selection of the
\* first PopMenuSize dishes of menu_data, and up to PopMaxOrders orders of up to
\* PopMaxLines lines of those dishes (a dish of a line may have left the
\* catalog since).
PopDishes == SubSeq(menu_data, 1, Min(PopMenuSize, Len(menu_data)))

PopMenus ==
    {SelectSeq(PopDishes, LAMBDA m : m.food_id \in S) : S \in SUBSET FoodIds(PopDishes)}

PopLine == [item : {PopDishes[d] : d \in 1..Len(PopDishes)}, qty : 1..PopMaxQty]

PopItems ==
    {ls \in UNION {[1..n -> PopLine] : n \in 1..PopMaxLines} :
        \A a, b \in 1..Len(ls) : a # b => ls[a].item.food_id # ls[b].item.food_id}

PopLedgers ==
    {[i \in 1..n |-> OrderHistory(i, "Alice", f[i], LinesTotal(f[i]), FALSE)] :
        n \in 0..PopMaxOrders, f \in [1..PopMaxOrders -> PopItems]}

InitPopular ==
    /\ authenticated = TRUE
    /\ page = "Order"
    /\ menu_items \in PopMenus
    /\ orders \in PopLedgers
    /\ order_index = Len(orders) + 1
    /\ cart = <<>>
    /\ cache = <<>>
    /\ popular_call = <<>>
    /\ attempt = <<>>
    /\ admin_view = <<>>
    /\ issued_order_ids = [i \in 1..Len(orders) |-> i]
    /\ used_food_ids = FoodIds(PopDishes)
    /\ orphaned = {}

\* get_popular_items(menu_items, orders, limit), the body run without the cache.
GetPopularItems(limit) ==
    /\ popular_call' = << [hit |-> FALSE, limit |-> limit, menu |-> menu_items,
                           orders |-> orders,
                           entry |-> CacheEntry(menu_items, orders, limit)] >>
    /\ UNCHANGED <<authenticated, page, menu_items, orders, order_index, cart,
                   cache, attempt, admin_view, issued_order_ids, used_food_ids,
                   orphaned>>

NextPopular == \E limit \in 1..PopularLimit : GetPopularItems(limit)

SpecPopular == InitPopular /\ [][NextPopular]_vars

(* --------------- the order listing on its own: SpecListing ------------- *)
\* The admin page on a ledger of up to ListMaxOrders orders of one Burger
\* each, placed in a row, from which the admin deletes orders.
InitListing ==
    /\ authenticated = TRUE
    /\ page = "Admin"
    /\ menu_items = load_default_menu
    /\ \E n \in 0..ListMaxOrders :
           orders = [i \in 1..n |->
                        OrderHistory(i, "Alice", <<[item |-> menu_data[1], qty |-> 1]>>,
                                     menu_data[1].price, FALSE)]
    /\ order_index = Len(orders) + 1
    /\ cart = <<>>
    /\ cache = <<>>
    /\ popular_call = <<>>
    /\ attempt = <<>>
    /\ admin_view = ViewOf(page, orders)
    /\ issued_order_ids = [i \in 1..Len(orders) |-> i]
    /\ used_food_ids = FoodIds(load_default_menu)
    /\ orphaned = {}

NextListing == \E j \in 1..ListCap : DeleteOrder(j)

SpecListing == InitListing /\ [][NextListing]_vars

TypeOK ==
    /\ authenticated \in BOOLEAN
    /\ page \in {"Order", "Admin"}
    /\ order_index \in 1..(MaxOrders + 1)
    /\ Len(cache) <= 1

(* ------------------------------ claims --------------------------------- *)
\* C1: the identifiers of the orders placed are strictly increasing in
\* placement order, so no identifier is assigned twice, also not after the
\* order that carried it was deleted; the ledger keeps them in that order and
\* the counter is ahead of all of them.
C1_OrderIdsIncreasing ==
    /\ \A i, j \in 1..Len(issued_order_ids) :
           i < j => issued_order_ids[i] < issued_order_ids[j]
    /\ \A i \in 1..Len(issued_order_ids) : issued_order_ids[i] < order_index
    /\ \A i \in 1..Len(orders) :
           \E j \in 1..Len(issued_order_ids) : orders[i].order_id = issued_order_ids[j]
    /\ \A i, j \in 1..Len(orders) : i < j => orders[i].order_id < orders[j].order_id

\* Two orders were placed and the first one is no longer in the ledger.
C1_Witness ==
    /\ Len(issued_order_ids) = 2
    /\ Len(orders) = 1
    /\ orders[1].order_id = issued_order_ids[2]

\* C2: the identifier of a dish that Add Dish appends is greater than every
\* identifier in the catalog and was never held by an earlier dish.
C2_FoodIdsNeverReused ==
    [][Len(menu_items') > Len(menu_items) =>
          /\ \A i \in 1..Len(menu_items) :
                 menu_items[i].food_id < menu_items'[Len(menu_items')].food_id
          /\ menu_items'[Len(menu_items')].food_id \notin used_food_ids]_vars

\* C3: every entry of the cart has a quantity of at least 1.
C3_CartQuantitiesPositive ==
    \A i \in 1..Len(cart) : cart[i].qty >= 1

\* A cart of two entries, after more than one "+".
C3_Witness ==
    /\ Len(cart) = 2
    /\ \A i \in 1..Len(cart) : cart[i].qty = 1

\* C4: a click on Place Order with a blank name, or with a cart of which no
\* entry resolves in the catalog, appends no order and leaves the ledger and
\* the counter as they were; the cache is what the page's own call of
\* get_popular_items leaves, no entry is invalidated.
C4_RejectedPlacementChangesNothing ==
    [][(/\ attempt' # <<>>
        /\ \/ Head(attempt').items_ordered = <<>>
           \/ Head(attempt').customer_name = "")
       => /\ orders' = orders
          /\ order_index' = order_index
          /\ issued_order_ids' = issued_order_ids
          /\ cache' = Rendered(cache, page, menu_items, orders)
          /\ (cache # <<>> => cache' = cache)]_vars

\* A named customer clicked Place Order on a cart of orphaned entries only,
\* with a live cache entry.
C4_Witness ==
    /\ attempt # <<>>
    /\ Head(attempt).customer_name # ""
    /\ Head(attempt).items_ordered = <<>>
    /\ cart # <<>>
    /\ cache # <<>>

\* C5: a step that edits the catalog leaves the ledger as it is, and no step
\* changes an order that stays in the ledger: identifier, customer, line items
\* and total remain those of the placement.
C5_CatalogEditKeepsOrders ==
    [][/\ menu_items' # menu_items => orders' = orders
       /\ \A i \in 1..Len(orders') : \A j \in 1..Len(orders) :
              orders'[i].order_id = orders[j].order_id => orders'[i] = orders[j]]_vars

\* The ledger holds a line of a dish that is no longer in the catalog.
C5_Witness ==
    \E i \in 1..Len(orders) : \E l \in 1..Len(orders[i].items) :
        \A m \in 1..Len(menu_items) : menu_items[m] # orders[i].items[l].item

RECURSIVE SumOfLines(_, _)
\* The sum of price x quantity over the first n lines.
SumOfLines(lines, n) ==
    IF n = 0 THEN 0
    ELSE SumOfLines(lines, n - 1) + lines[n].qty * lines[n].item.price

\* C6: every order of the ledger has at least one line, every line has a
\* quantity of at least 1, and the total is the sum of price x quantity.
C6_OrderTotalsConsistent ==
    \A i \in 1..Len(orders) :
        /\ orders[i].items # <<>>
        /\ \A l \in 1..Len(orders[i].items) : orders[i].items[l].qty >= 1
        /\ orders[i].total_amount = SumOfLines(orders[i].items, Len(orders[i].items))

\* An order of two lines and an order with a quantity of 2.
C6_Witness ==
    /\ \E i \in 1..Len(orders) : Len(orders[i].items) = 2
    /\ \E i \in 1..Len(orders) : orders[i].items[1].qty = 2

\* C7: a cart entry that lost its dish to a catalog deletion, and that no
\* cart button has written since, yields no line in the cart summary or in a
\* placed order.
C7_OrphanedEntriesStayAbsent ==
    \A i \in 1..Len(ItemsOrdered(cart, menu_items)) :
        ItemsOrdered(cart, menu_items)[i].item.food_id \notin orphaned

\* C9: a call of get_popular_items that is passed a ledger holding the most
\* recently placed order returns a result computed from a ledger that holds
\* that order.
C9_PlacementInvalidatesCache ==
    (popular_call # <<>> /\ issued_order_ids # <<>>) =>
        LET newest == issued_order_ids[Len(issued_order_ids)]
            call == Head(popular_call)
        IN  (\E i \in 1..Len(call.orders) : call.orders[i].order_id = newest)
            => (\E i \in 1..Len(call.entry.orders) :
                    call.entry.orders[i].order_id = newest)

\* The call after a placement made while an earlier order was in the ledger
\* (the run of that placement had a live entry): the result is computed anew.
C9_Witness ==
    /\ popular_call # <<>>
    /\ ~Head(popular_call).hit
    /\ Len(Head(popular_call).orders) = 2
    /\ Head(popular_call).orders[2].order_id = issued_order_ids[Len(issued_order_ids)]
    /\ Head(popular_call).entry.orders = Head(popular_call).orders

\* C10: a result served from the cache was computed from the catalog and the
\* ledger that the call was passed.
C10_ServedEntryMatchesArguments ==
    (popular_call # <<>> /\ Head(popular_call).hit) =>
        /\ Head(popular_call).entry.menu = Head(popular_call).menu
        /\ Head(popular_call).entry.orders = Head(popular_call).orders

(* ---------------------- C8, under SpecPopular --------------------------- *)
\* The positions <<order, line>> of the ledger.
LinePositions(ords) ==
    UNION {{<<i, l>> : l \in 1..Len(ords[i].items)} : i \in 1..Len(ords)}

RECURSIVE QtyOver(_, _, _)
\* The quantity ordered of food_id over the positions P.
QtyOver(ords, P, food_id) ==
    IF P = {} THEN 0
    ELSE LET p == CHOOSE q \in P : TRUE
             line == ords[p[1]].items[p[2]]
         IN  (IF line.item.food_id = food_id THEN line.qty ELSE 0)
             + QtyOver(ords, P \ {p}, food_id)

\* The cumulative ordered quantity of food_id across the ledger.
Cumulative(ords, food_id) == QtyOver(ords, LinePositions(ords), food_id)

OrderedIds(ords) ==
    {ords[p[1]].items[p[2]].item.food_id : p \in LinePositions(ords)}

\* The first position of the ledger that orders food_id.
FirstSeen(ords, food_id) ==
    CHOOSE p \in LinePositions(ords) :
        /\ ords[p[1]].items[p[2]].item.food_id = food_id
        /\ \A q \in LinePositions(ords) :
               ords[q[1]].items[q[2]].item.food_id = food_id =>
                   (p[1] < q[1] \/ (p[1] = q[1] /\ p[2] <= q[2]))

Earlier(p, q) == p[1] < q[1] \/ (p[1] = q[1] /\ p[2] < q[2])

\* a ranks ahead of b: more ordered, or as much and ordered first.
RanksAhead(ords, a, b) ==
    \/ Cumulative(ords, a) > Cumulative(ords, b)
    \/ /\ Cumulative(ords, a) = Cumulative(ords, b)
       /\ Earlier(FirstSeen(ords, a), FirstSeen(ords, b))

\* The limit identifiers that rank first.
TopIds(ords, limit) ==
    {a \in OrderedIds(ords) :
        Cardinality({b \in OrderedIds(ords) : RanksAhead(ords, b, a)}) < limit}

\* C8 as stated: with at least one order, the items returned are among the
\* most ordered (no dish of the catalog that is left out was ordered more than
\* a dish returned) and are listed in descending order of cumulative quantity.
C8_PopularListedDescending ==
    (popular_call # <<>> /\ Head(popular_call).orders # <<>>) =>
        LET call == Head(popular_call)
            r == call.entry.result
        IN  /\ Len(r) <= call.limit
            /\ \A i \in 1..Len(r) : r[i].food_id \in OrderedIds(call.orders)
            /\ \A i \in 1..Len(r) : \A m \in 1..Len(call.menu) :
                   (\A j \in 1..Len(r) : r[j] # call.menu[m]) =>
                       Cumulative(call.orders, call.menu[m].food_id)
                           <= Cumulative(call.orders, r[i].food_id)
            /\ \A i, j \in 1..Len(r) :
                   i < j => Cumulative(call.orders, r[i].food_id)
                                >= Cumulative(call.orders, r[j].food_id)

\* C8 amended: with at least one order, the result is, in catalog order, the
\* dishes of the catalog whose identifier is among the limit identifiers that
\* rank first by cumulative quantity (ties by first appearance in the ledger).
C8_PopularInCatalogOrder ==
    (popular_call # <<>> /\ Head(popular_call).orders # <<>>) =>
        LET call == Head(popular_call)
        IN  call.entry.result =
                SelectSeq(call.menu,
                          LAMBDA m : m.food_id \in TopIds(call.orders, call.limit))

\* More identifiers ordered than the limit, a full result, and the catalog
\* order of the result is not the descending order of quantity.
C8_Witness ==
    /\ popular_call # <<>>
    /\ LET call == Head(popular_call)
           r == call.entry.result
       IN  /\ Cardinality(OrderedIds(call.orders)) > call.limit
           /\ Len(r) = call.limit
           /\ call.limit = PopularLimit
           /\ \E i, j \in 1..Len(r) :
                  i < j /\ Cumulative(call.orders, r[i].food_id)
                             < Cumulative(call.orders, r[j].food_id)

(* ----------------------------- C11 to C13 ------------------------------ *)
RECURSIVE SumOfTotals(_, _)
\* The sum of the totals of the first n orders.
SumOfTotals(ords, n) ==
    IF n = 0 THEN 0 ELSE SumOfTotals(ords, n - 1) + ords[n].total_amount

\* C11: the metrics on the admin page are those of the ledger as it is: count
\* is the number of orders, revenue the sum of their totals, and the average
\* is revenue / count on a ledger with orders and 0 on an empty one, never a
\* division by zero.
C11_MetricsMatchLedger ==
    admin_view # <<>> =>
        LET m == Head(admin_view)
        IN  /\ m.count = Len(orders)
            /\ m.revenue = SumOfTotals(orders, Len(orders))
            /\ m.avg.den # 0
            /\ m.count > 0 => m.avg.num * m.count = m.revenue * m.avg.den
            /\ m.count = 0 => (m.revenue = 0 /\ m.avg.num = 0)

\* The admin page on a ledger that deletions have emptied.
C11_Witness ==
    /\ admin_view # <<>>
    /\ orders = <<>>
    /\ Len(issued_order_ids) = 2
    /\ Head(admin_view).count = 0

\* C12: a successful placement empties the cart, the entries that did not
\* resolve included, and leaves the catalog; Clear Cart and Logout empty the
\* cart and leave the catalog, the ledger and the order counter.
C12_CartEmptiedFrame ==
    [][/\ (attempt' # <<>> /\ order_index' # order_index) =>
              (cart' = <<>> /\ menu_items' = menu_items)
       /\ ClearCart =>
              (cart' = <<>> /\ menu_items' = menu_items /\ orders' = orders
               /\ order_index' = order_index)
       /\ (authenticated /\ ~authenticated') =>
              (cart' = <<>> /\ menu_items' = menu_items /\ orders' = orders
               /\ order_index' = order_index)]_vars

\* A placement that succeeded on a cart with an entry that did not resolve.
C12_Witness ==
    /\ attempt # <<>>
    /\ Head(attempt).customer_name # ""
    /\ Head(attempt).items_ordered # <<>>
    /\ Len(Head(attempt).cart) > Len(Head(attempt).items_ordered)
    /\ cart = <<>>
    /\ Len(orders) = 1

\* C13: the ledger is in placement order, oldest first, and the admin page
\* lists the min(ListCap, n) most recently placed orders of the ledger, newest
\* first.
C13_ListingNewestFirst ==
    /\ \A i, j \in 1..Len(orders) : i < j => orders[i].order_id < orders[j].order_id
    /\ admin_view # <<>> =>
        LET listed == Head(admin_view).listed
        IN  /\ Len(listed) = Min(ListCap, Len(orders))
            /\ \A a \in 1..Len(listed) : \E i \in 1..Len(orders) : orders[i] = listed[a]
            /\ \A a, b \in 1..Len(listed) :
                   a < b => listed[a].order_id > listed[b].order_id
            /\ \A i \in 1..Len(orders) :
                   (\A a \in 1..Len(listed) : listed[a] # orders[i]) =>
                       \A a \in 1..Len(listed) : orders[i].order_id < listed[a].order_id

\* More orders than the listing shows, after a deletion.
C13_Witness ==
    /\ admin_view # <<>>
    /\ Len(orders) = ListCap + 1
    /\ Len(issued_order_ids) > Len(orders)
    /\ Len(Head(admin_view).listed) = ListCap

====
